---- MODULE Spec2Model ----
(***************************************************************************)
(* Model of src/streamlit.py: the loader load_data (lines 56-93), the      *)
(* filter apply_filters (lines 100-131) and the four pages that call it.   *)
(*                                                                         *)
(* A DataFrame is a sequence of rows (records); a column that may hold NaN *)
(* (a float column after to_numeric or a left merge, a string column after *)
(* a left merge) holds cells [nan, v].  Python objects that are assigned   *)
(* to in place live in a heap (a sequence of tables) and are named by      *)
(* their index, so that aliasing between the base table and a page's       *)
(* subset is something the model can show.                                 *)
(* Percentages are exact rationals [num, den]; float rounding is not       *)
(* modelled.                                                               *)
(***************************************************************************)
EXTENDS Integers, Sequences, FiniteSets, TLC

VARIABLES harga, genre_csv, steam_csv, pc, df, page, fdf, critA, critB, fdf2

vars == <<harga, genre_csv, steam_csv, pc, df, page, fdf, critA, critB, fdf2>>

\* Longest primary source (rows of harga_popularitas.csv) the model draws.
MaxRows == 2

\* The fallback release year.
FallbackYear == 2020

(***************************************************************************)
(* Cells                                                                   *)
(***************************************************************************)
NaN == [nan |-> TRUE, v |-> 0]

Num(n) == [nan |-> FALSE, v |-> n]

NaNStr == [nan |-> TRUE, v |-> <<>>]

\* pd.to_numeric(cell, errors="coerce"): the number a cell's text denotes,
\* NaN for text that denotes none.
to_numeric(cell) ==
    CASE cell = "0" -> Num(0)
      [] cell = "5" -> Num(5)
      [] cell = "10" -> Num(10)
      [] cell = "30" -> Num(30)
      [] cell = "50" -> Num(50)
      [] cell = "-5" -> Num(-5)
      [] OTHER -> NaN

\* Series.fillna(d)
fillna(x, d) == IF x.nan THEN d ELSE x.v

\* pd.to_datetime(cell, errors="coerce").dt.year: the year of a date cell,
\* NaN (from NaT) for text that is no date.
to_year(cell) ==
    CASE cell = "2004-11-16" -> Num(2004)
      [] cell = "2019-05-01" -> Num(2019)
      [] OTHER -> NaN

(***************************************************************************)
(* Input sources                                                           *)
(***************************************************************************)
AppIds == {1, 2}

\* The (price, positive_ratings, negative_ratings) cells of a primary row.
HargaCells ==
    { <<"0", "10", "0">>, <<"30", "50", "50">>,
      <<"abc", "", "abc">>, <<"30", "-5", "10">> }

HargaRows ==
    { [appid |-> a, price |-> c[1], positive_ratings |-> c[2],
       negative_ratings |-> c[3]] : a \in AppIds, c \in HargaCells }

RECURSIVE SeqsUpTo(_, _)
SeqsUpTo(S, n) ==
    IF n = 0 THEN { <<>> }
    ELSE LET shorter == SeqsUpTo(S, n - 1)
         IN shorter \cup { Append(q, x) : q \in { r \in shorter : Len(r) = n - 1 }, x \in S }

Missing == [ok |-> FALSE, rows |-> <<>>]

File(rows) == [ok |-> TRUE, rows |-> rows]

HargaSources == { Missing } \cup { File(r) : r \in SeqsUpTo(HargaRows, MaxRows) }

\* A genre cell is the list of its ';'-separated segments.
GenreSources ==
    { Missing,
      File(<< [appid |-> 1, genre |-> <<"Action", "Indie">>] >>),
      File(<< [appid |-> 1, genre |-> <<"Action", "Indie">>],
              [appid |-> 2, genre |-> <<"RPG">>] >>),
      File(<< [appid |-> 1, genre |-> <<"Action", "Indie">>],
              [appid |-> 1, genre |-> <<"RPG">>] >>) }

SteamSources ==
    { Missing,
      File(<< [appid |-> 1, release_date |-> "2004-11-16"] >>),
      File(<< [appid |-> 1, release_date |-> "2004-11-16"],
              [appid |-> 2, release_date |-> "bad"] >>),
      File(<< [appid |-> 2, release_date |-> "2019-05-01"],
              [appid |-> 2, release_date |-> "2004-11-16"] >>) }

(***************************************************************************)
(* load_data                                                               *)
(***************************************************************************)
RECURSIVE Flatten(_)
Flatten(ss) == IF ss = <<>> THEN <<>> ELSE Head(ss) \o Flatten(Tail(ss))

\* The rows of right whose appid is a, in right's order.
Lookup(right, a) == SelectSeq(right, LAMBDA r : r.appid = a)

WithGenres(row, g) ==
    [appid |-> row.appid, price |-> row.price,
     positive_ratings |-> row.positive_ratings,
     negative_ratings |-> row.negative_ratings, genres |-> g]

\* harga.merge(genre, on="appid", how="left"): each primary row once per
\* genre row of its appid, once with a missing genres cell when there is none.
merge_genre(left, right) ==
    Flatten([i \in 1..Len(left) |->
        LET m == Lookup(right, left[i].appid)
        IN IF m = <<>> THEN << WithGenres(left[i], NaNStr) >>
           ELSE [j \in 1..Len(m) |->
                    WithGenres(left[i], [nan |-> FALSE, v |-> m[j].genre])]])

\* np.where(total > 0, ratings / total * 100, 0), as an exact fraction.
ratio(ratings, total) ==
    IF total > 0 THEN [num |-> ratings * 100, den |-> total]
    ELSE [num |-> 0, den |-> 1]

\* Faulty variant of line 65: negative_ratings read from the
\* positive_ratings column.
coerce_same_column(row) ==
    LET price == fillna(to_numeric(row.price), 0)
        pos == fillna(to_numeric(row.positive_ratings), 0)
        neg == fillna(to_numeric(row.positive_ratings), 0)
        total == pos + neg
    IN [appid |-> row.appid, price |-> price, positive_ratings |-> pos,
        negative_ratings |-> neg, genres |-> row.genres,
        total_ratings |-> total, owners_numeric |-> total * 10,
        negative_ratio |-> ratio(neg, total),
        positive_ratio |-> ratio(pos, total)]

\* Lines 63-80: the coerced and derived numeric columns of one row.
coerce(row) ==
    LET price == fillna(to_numeric(row.price), 0)
        pos == fillna(to_numeric(row.positive_ratings), 0)
        neg == fillna(to_numeric(row.negative_ratings), 0)
        total == pos + neg
    IN [appid |-> row.appid, price |-> price, positive_ratings |-> pos,
        negative_ratings |-> neg, genres |-> row.genres,
        total_ratings |-> total, owners_numeric |-> total * 10,
        negative_ratio |-> ratio(neg, total),
        positive_ratio |-> ratio(pos, total)]

WithYear(row, y) ==
    [appid |-> row.appid, price |-> row.price,
     positive_ratings |-> row.positive_ratings,
     negative_ratings |-> row.negative_ratings, genres |-> row.genres,
     total_ratings |-> row.total_ratings,
     owners_numeric |-> row.owners_numeric,
     negative_ratio |-> row.negative_ratio,
     positive_ratio |-> row.positive_ratio, release_year |-> y]

\* df.merge(steam[["appid", "release_year"]], on="appid", how="left"): each
\* row once per steam row of its appid with that row's year (NaN for a date
\* that did not parse), once with NaN when steam has no row of its appid.
merge_steam(left, steam) ==
    Flatten([i \in 1..Len(left) |->
        LET m == Lookup(steam, left[i].appid)
        IN IF m = <<>> THEN << WithYear(left[i], NaN) >>
           ELSE [j \in 1..Len(m) |->
                    WithYear(left[i], to_year(m[j].release_date))]])

\* Lines 82-88: the merge when steam.csv is read, the fallback year on
\* every row when reading it raised.
release_years(left, steam) ==
    IF steam.ok THEN merge_steam(left, steam.rows)
    ELSE [i \in 1..Len(left) |-> WithYear(left[i], Num(FallbackYear))]

\* Faulty variant of line 90: the two labels exchanged.
derive_labels_exchanged(row) ==
    [appid |-> row.appid, price |-> row.price,
     positive_ratings |-> row.positive_ratings,
     negative_ratings |-> row.negative_ratings, genres |-> row.genres,
     total_ratings |-> row.total_ratings,
     owners_numeric |-> row.owners_numeric,
     negative_ratio |-> row.negative_ratio,
     positive_ratio |-> row.positive_ratio,
     release_year |-> row.release_year,
     game_type |-> IF row.price = 0 THEN "Paid" ELSE "Free",
     primary_genre |-> IF row.genres.nan THEN "Unknown" ELSE Head(row.genres.v)]

\* Lines 90-91.
derive(row) ==
    [appid |-> row.appid, price |-> row.price,
     positive_ratings |-> row.positive_ratings,
     negative_ratings |-> row.negative_ratings, genres |-> row.genres,
     total_ratings |-> row.total_ratings,
     owners_numeric |-> row.owners_numeric,
     negative_ratio |-> row.negative_ratio,
     positive_ratio |-> row.positive_ratio,
     release_year |-> row.release_year,
     game_type |-> IF row.price = 0 THEN "Free" ELSE "Paid",
     primary_genre |-> IF row.genres.nan THEN "Unknown" ELSE Head(row.genres.v)]

\* load_data(): raises when either read_csv of lines 57-58 does (neither is
\* guarded), else the table.
load_data(h, g, s) ==
    IF ~h.ok \/ ~g.ok THEN [raised |-> TRUE, table |-> <<>>]
    ELSE LET merged == merge_genre(h.rows, g.rows)
             coerced == [i \in 1..Len(merged) |-> coerce(merged[i])]
             dated == release_years(coerced, s)
         IN [raised |-> FALSE,
             table |-> [i \in 1..Len(dated) |-> derive(dated[i])]]

(***************************************************************************)
(* apply_filters                                                           *)
(***************************************************************************)
\* An optional argument is [given, ...]: given is FALSE for None.
NoRange == [given |-> FALSE, lo |-> 0, hi |-> 0]

Range(lo, hi) == [given |-> TRUE, lo |-> lo, hi |-> hi]

NoGenres == [given |-> FALSE, set |-> {}]

Genres(S) == [given |-> TRUE, set |-> S]

NoType == [given |-> FALSE, v |-> ""]

Type(t) == [given |-> TRUE, v |-> t]

NoMin == [given |-> FALSE, v |-> 0]

Min(n) == [given |-> TRUE, v |-> n]

Criteria(y, g, t, m, p) ==
    [year_range |-> y, genres |-> g, game_type |-> t, min_ratings |-> m,
     price_range |-> p]

NoCriteria == Criteria(NoRange, NoGenres, NoType, NoMin, NoRange)

\* Line 110, line 125: "if year_range:", "if price_range:"; a pair is truthy.
range_active(r) == r.given

\* Faulty variant of line 116: the test for "All" left out.
genres_active_noall(g) == g.given /\ g.set # {}

\* Line 116: "if genres and "All" not in genres"; an empty list is falsy.
genres_active(g) == g.given /\ g.set # {} /\ "All" \notin g.set

\* Line 119: "if game_type and game_type != "All""; "" is falsy.
type_active(t) == t.given /\ t.v # "" /\ t.v # "All"

\* Line 122: "if min_ratings:"; 0 is falsy.
min_active(m) == m.given /\ m.v # 0

\* Lines 111-114; a comparison with NaN is False.
year_filter(rows, r) ==
    SelectSeq(rows, LAMBDA x : ~x.release_year.nan
                               /\ x.release_year.v >= r.lo
                               /\ x.release_year.v <= r.hi)

\* Line 117.
genre_filter(rows, g) == SelectSeq(rows, LAMBDA x : x.primary_genre \in g.set)

\* Line 120.
type_filter(rows, t) == SelectSeq(rows, LAMBDA x : x.game_type = t.v)

\* The smallest total_ratings of a non-empty frame.
RECURSIVE MinTotal(_)
MinTotal(rows) ==
    IF Len(rows) = 1 THEN rows[1].total_ratings
    ELSE LET m == MinTotal(Tail(rows))
         IN IF rows[1].total_ratings < m THEN rows[1].total_ratings ELSE m

\* Faulty variant of line 123: the threshold taken from the frame
\* (temp.total_ratings.min()) and compared strictly.
min_ratings_filter_above_min(rows, m) ==
    IF rows = <<>> THEN rows
    ELSE SelectSeq(rows, LAMBDA x : x.total_ratings > MinTotal(rows))

\* Line 123.
min_ratings_filter(rows, m) == SelectSeq(rows, LAMBDA x : x.total_ratings >= m.v)

\* Lines 126-129.
price_filter(rows, r) ==
    SelectSeq(rows, LAMBDA x : x.price >= r.lo /\ x.price <= r.hi)

\* A new object holding rows: what df.copy() and temp[mask] return.
new_frame(st, rows) == [heap |-> Append(st.heap, rows), ref |-> Len(st.heap) + 1]

\* apply_filters(df, ...): st.heap holds the objects, st.ref names df; the
\* result names the returned frame in the heap it leaves.
apply_filters(st, c) ==
    LET rows(s) == s.heap[s.ref]
        t0 == new_frame(st, rows(st))
        t1 == IF range_active(c.year_range)
              THEN new_frame(t0, year_filter(rows(t0), c.year_range)) ELSE t0
        t2 == IF genres_active(c.genres)
              THEN new_frame(t1, genre_filter(rows(t1), c.genres)) ELSE t1
        t3 == IF type_active(c.game_type)
              THEN new_frame(t2, type_filter(rows(t2), c.game_type)) ELSE t2
        t4 == IF min_active(c.min_ratings)
              THEN new_frame(t3, min_ratings_filter(rows(t3), c.min_ratings)) ELSE t3
        t5 == IF range_active(c.price_range)
              THEN new_frame(t4, price_filter(rows(t4), c.price_range)) ELSE t4
    IN t5

\* The rows apply_filters returns for a table held as the only object.
Filtered(table, c) ==
    LET r == apply_filters([heap |-> <<table>>, ref |-> 1], c) IN r.heap[r.ref]

(***************************************************************************)
(* The program: load, then page views                                      *)
(***************************************************************************)
Init ==
    /\ harga \in HargaSources
    /\ genre_csv \in GenreSources
    /\ steam_csv \in SteamSources
    /\ pc = "start"
    /\ df = <<>>
    /\ page = "none"
    /\ fdf = <<>>
    /\ critA = NoCriteria
    /\ critB = NoCriteria
    /\ fdf2 = <<>>

\* Line 95: df = load_data().
Load ==
    /\ pc = "start"
    /\ LET r == load_data(harga, genre_csv, steam_csv)
       IN /\ pc' = IF r.raised THEN "raised" ELSE "loaded"
          /\ df' = r.table
    /\ UNCHANGED <<harga, genre_csv, steam_csv, page, fdf, critA, critB, fdf2>>

\* The years, prices and genres the widgets are built from.
YearsOf(table) ==
    { table[i].release_year.v : i \in { j \in 1..Len(table) : ~table[j].release_year.nan } }

PricesOf(table) == { table[i].price : i \in 1..Len(table) }

GenresOf(table) == { table[i].primary_genre : i \in 1..Len(table) }

SetMax(S) == CHOOSE x \in S : \A y \in S : y <= x

SetMin(S) == CHOOSE x \in S : \A y \in S : x <= y

\* Lines 143-146: the sidebar; int(df.release_year.min()) raises when no row
\* has a year, and the script stops before any page.
sidebar_ok == pc = "loaded" /\ YearsOf(df) # {}

\* st.slider(label, lo, hi, (dlo, dhi)): raises unless lo <= dlo <= dhi <= hi
\* and lo < hi; the user then picks any pair in the range, drawn here from
\* the ends and the defaults.
slider(lo, hi, dlo, dhi) ==
    IF lo <= dlo /\ dlo <= dhi /\ dhi <= hi /\ lo < hi
    THEN { Range(q[1], q[2]) :
             q \in { r \in {lo, dlo, dhi, hi} \X {lo, dlo, dhi, hi} : r[1] <= r[2] } }
    ELSE {}

year_slider(dlo) == slider(SetMin(YearsOf(df)), SetMax(YearsOf(df)), dlo, SetMax(YearsOf(df)))

\* st.multiselect("Genre", ["All"] + genres, default=["All"]): any subset;
\* drawn here: none, "All", one genre, "All" with one genre.
multiselect ==
    { Genres(S) : S \in {{}, {"All"}} \cup { {g} : g \in GenresOf(df) }
                        \cup { {"All", g} : g \in GenresOf(df) } }

\* st.selectbox("Tipe Game", ["All", "Free", "Paid"])
selectbox == { Type(t) : t \in {"All", "Free", "Paid"} }

\* st.number_input("Minimal Total Ulasan", 50, 1000, 100, 50)
number_input == { Min(50), Min(100) }

\* Lines 492-497.
price_category(p) ==
    CASE p = 0 -> "Free"
      [] p # 0 /\ p < 5 -> "Budget"
      [] p >= 5 /\ p < 15 -> "Mid"
      [] p >= 15 /\ p < 30 -> "Premium"
      [] OTHER -> "AAA"

with_price_category(row) ==
    [appid |-> row.appid, price |-> row.price,
     positive_ratings |-> row.positive_ratings,
     negative_ratings |-> row.negative_ratings, genres |-> row.genres,
     total_ratings |-> row.total_ratings,
     owners_numeric |-> row.owners_numeric,
     negative_ratio |-> row.negative_ratio,
     positive_ratio |-> row.positive_ratio,
     release_year |-> row.release_year,
     game_type |-> row.game_type, primary_genre |-> row.primary_genre,
     price_category |-> price_category(row.price)]

\* Faulty variant of line 499: the column set on df, not on fdf.
assign_price_category_df(heap, ref) ==
    [heap EXCEPT ![1] = [i \in 1..Len(heap[1]) |-> with_price_category(heap[1][i])]]

\* Line 499: fdf["price_category"] = ..., a column set in place on the
\* object fdf names.
assign_price_category(heap, ref) ==
    [heap EXCEPT ![ref] = [i \in 1..Len(heap[ref]) |-> with_price_category(heap[ref][i])]]

\* A page's call apply_filters(df, ...): the base table is object 1.
View(name, c) ==
    LET r == apply_filters([heap |-> <<df>>, ref |-> 1], c)
    IN /\ df' = r.heap[1]
       /\ fdf' = r.heap[r.ref]
       /\ page' = name
       /\ UNCHANGED <<harga, genre_csv, steam_csv, pc, critA, critB, fdf2>>

\* Lines 152-281.
Dashboard ==
    /\ sidebar_ok
    /\ \E y \in year_slider(2015), g \in multiselect, t \in selectbox :
          View("Dashboard", Criteria(y, g, t, NoMin, NoRange))

\* Lines 287-396.
Game_Kontroversial ==
    /\ sidebar_ok
    /\ \E m \in number_input, g \in multiselect, y \in year_slider(2010) :
          View("Game Kontroversial", Criteria(y, g, NoType, m, NoRange))

\* Lines 402-531.
Harga_vs_Popularitas ==
    /\ sidebar_ok
    /\ \E p \in slider(0, SetMax(PricesOf(df)), 0, 30), m \in number_input,
          g \in multiselect :
          LET r == apply_filters([heap |-> <<df>>, ref |-> 1],
                                 Criteria(NoRange, g, NoType, m, p))
              h == assign_price_category(r.heap, r.ref)
          IN /\ df' = h[1]
             /\ fdf' = h[r.ref]
             /\ page' = "Harga vs Popularitas"
             /\ UNCHANGED <<harga, genre_csv, steam_csv, pc, critA, critB, fdf2>>

\* Lines 537-634.
Popularitas_by_Tahun_Rilis ==
    /\ sidebar_ok
    /\ \E y \in year_slider(2005), t \in selectbox :
          View("Popularitas by Tahun Rilis", Criteria(y, NoGenres, t, NoMin, NoRange))

Next ==
    \/ Load
    \/ Dashboard
    \/ Game_Kontroversial
    \/ Harga_vs_Popularitas
    \/ Popularitas_by_Tahun_Rilis

Spec == Init /\ [][Next]_vars

(***************************************************************************)
(* apply_filters as a function: one call, then a second call on its result *)
(***************************************************************************)
YearArgs == { NoRange, Range(2004, 2019), Range(2019, 2020) }

GenreArgs ==
    { NoGenres, Genres({}), Genres({"All"}), Genres({"Action"}),
      Genres({"RPG", "Unknown"}), Genres({"All", "Action"}) }

TypeArgs == { NoType, Type("All"), Type("Free"), Type("Paid") }

MinArgs == { NoMin, Min(0), Min(10) }

PriceArgs == { NoRange, Range(0, 0), Range(0, 30) }

\* The calls drawn: at most one argument given; every argument absent or
\* disabling ("All", 0); and two calls with every argument given.
FilterCriteria ==
    { Criteria(y, NoGenres, NoType, NoMin, NoRange) : y \in YearArgs }
    \cup { Criteria(NoRange, g, NoType, NoMin, NoRange) : g \in GenreArgs }
    \cup { Criteria(NoRange, NoGenres, t, NoMin, NoRange) : t \in TypeArgs }
    \cup { Criteria(NoRange, NoGenres, NoType, m, NoRange) : m \in MinArgs }
    \cup { Criteria(NoRange, NoGenres, NoType, NoMin, p) : p \in PriceArgs }
    \cup { Criteria(NoRange, g, t, m, NoRange) :
             g \in { NoGenres, Genres({"All"}), Genres({"All", "Action"}) },
             t \in { NoType, Type("All") }, m \in { NoMin, Min(0) } }
    \cup { Criteria(Range(2004, 2019), Genres({"Action"}), Type("Free"), Min(10), Range(0, 30)),
           Criteria(Range(2019, 2020), Genres({"RPG", "Unknown"}), Type("Paid"), Min(10), Range(0, 30)) }

InitFilter ==
    /\ harga \in HargaSources
    /\ harga.ok
    /\ genre_csv = File(<< [appid |-> 1, genre |-> <<"Action", "Indie">>],
                           [appid |-> 1, genre |-> <<"RPG">>] >>)
    /\ steam_csv \in { Missing, File(<< [appid |-> 1, release_date |-> "2004-11-16"] >>) }
    /\ pc = "start"
    /\ df = <<>>
    /\ page = "none"
    /\ fdf = <<>>
    /\ critA = NoCriteria
    /\ critB = NoCriteria
    /\ fdf2 = <<>>

\* fdf = apply_filters(df, **critA)
ApplyOnce ==
    /\ pc = "loaded"
    /\ \E c \in FilterCriteria :
          LET r == apply_filters([heap |-> <<df>>, ref |-> 1], c)
          IN /\ critA' = c
             /\ df' = r.heap[1]
             /\ fdf' = r.heap[r.ref]
    /\ pc' = "once"
    /\ UNCHANGED <<harga, genre_csv, steam_csv, page, critB, fdf2>>

\* fdf2 = apply_filters(fdf, **critB)
ApplyTwice ==
    /\ pc = "once"
    /\ \E c \in FilterCriteria :
          LET r == apply_filters([heap |-> <<df, fdf>>, ref |-> 2], c)
          IN /\ critB' = c
             /\ df' = r.heap[1]
             /\ fdf' = r.heap[2]
             /\ fdf2' = r.heap[r.ref]
    /\ pc' = "twice"
    /\ UNCHANGED <<harga, genre_csv, steam_csv, page, critA>>

NextFilter ==
    \/ Load
    \/ ApplyOnce
    \/ ApplyTwice

SpecFilter == InitFilter /\ [][NextFilter]_vars

(***************************************************************************)
(* Claims                                                                  *)
(***************************************************************************)
Applied == pc \in {"once", "twice"}

\* The predicate a call's arguments state: each argument that is given and
\* is no sentinel ("All" in the genre set, game type "All", min_ratings 0)
\* constrains the row.
Satisfies(x, c) ==
    /\ c.year_range.given =>
          ~x.release_year.nan /\ x.release_year.v >= c.year_range.lo
                              /\ x.release_year.v <= c.year_range.hi
    /\ (c.genres.given /\ "All" \notin c.genres.set) => x.primary_genre \in c.genres.set
    /\ (c.game_type.given /\ c.game_type.v # "All") => x.game_type = c.game_type.v
    /\ (c.min_ratings.given /\ c.min_ratings.v # 0) => x.total_ratings >= c.min_ratings.v
    /\ c.price_range.given => x.price >= c.price_range.lo /\ x.price <= c.price_range.hi

\* C1: apply_filters(table, criteria) returns exactly the rows of table that
\* satisfy every given, non-sentinel predicate, each once and in place.
C1_ExactRows == Applied => fdf = SelectSeq(df, LAMBDA x : Satisfies(x, critA))

Larger(a, b) == IF a >= b THEN a ELSE b

Smaller(a, b) == IF a <= b THEN a ELSE b

BothRanges(a, b) ==
    IF ~a.given THEN b
    ELSE IF ~b.given THEN a
    ELSE Range(Larger(a.lo, b.lo), Smaller(a.hi, b.hi))

GenresUnconstrained(g) == ~g.given \/ "All" \in g.set

BothGenres(a, b) ==
    IF GenresUnconstrained(a) THEN b
    ELSE IF GenresUnconstrained(b) THEN a
    ELSE Genres(a.set \cap b.set)

TypeUnconstrained(t) == ~t.given \/ t.v = "All"

BothTypes(a, b) == IF TypeUnconstrained(a) THEN b ELSE a

BothMins(a, b) ==
    IF ~a.given THEN b
    ELSE IF ~b.given THEN a
    ELSE Min(Larger(a.v, b.v))

\* The conjunction of two calls' arguments, as one call's arguments.
Conjunction(a, b) ==
    Criteria(BothRanges(a.year_range, b.year_range),
             BothGenres(a.genres, b.genres),
             BothTypes(a.game_type, b.game_type),
             BothMins(a.min_ratings, b.min_ratings),
             BothRanges(a.price_range, b.price_range))

\* Two game types one call can state: one is unconstrained, or they agree.
OneGameType(a, b) ==
    TypeUnconstrained(a.game_type) \/ TypeUnconstrained(b.game_type)
        \/ a.game_type = b.game_type

\* A genre argument that is absent or names at least one genre.
GenresNamed(g) == ~g.given \/ g.set # {}

\* C2: apply_filters(apply_filters(table, A), B) has the rows of the single
\* call with the conjunction of A and B, also when the two genre sets have
\* no genre in common.  Stated for calls whose game types one call can
\* state and whose own genre lists are not empty.
C2_Composes ==
    (pc = "twice" /\ OneGameType(critA, critB)
        /\ GenresNamed(critA.genres) /\ GenresNamed(critB.genres))
        => fdf2 = Filtered(df, Conjunction(critA, critB))

RowsOf(a) == { i \in 1..Len(df) : df[i].appid = a }

SteamRowsOf(a) == IF steam_csv.ok THEN Lookup(steam_csv.rows, a) ELSE <<>>

\* C3: after load_data every record's release_year is an integer year: a
\* year of the release-date source's rows of its appid, and 2020 when the
\* source is missing (load_data then does not raise) or has no such row.
C3_ReleaseYear ==
    /\ (pc = "raised" /\ harga.ok /\ genre_csv.ok) => steam_csv.ok
    /\ pc = "loaded" =>
          \A i \in 1..Len(df) :
             LET m == SteamRowsOf(df[i].appid)
             IN /\ ~df[i].release_year.nan
                /\ m = <<>> => df[i].release_year.v = FallbackYear
                /\ m # <<>> => \E j \in 1..Len(m) :
                                  df[i].release_year = to_year(m[j].release_date)

\* C4: with the genre source missing and the primary source readable,
\* load_data returns a table, and every record's primary_genre is "Unknown".
C4_MissingGenreSource ==
    (pc # "start" /\ harga.ok /\ ~genre_csv.ok)
        => /\ pc = "loaded"
           /\ \A i \in 1..Len(df) : df[i].primary_genre = "Unknown"

\* C5: every loaded record has positive_ratings >= 0, negative_ratings >= 0
\* and total_ratings = positive_ratings + negative_ratings.
C5_Ratings ==
    pc = "loaded" =>
       \A i \in 1..Len(df) :
          /\ df[i].positive_ratings >= 0
          /\ df[i].negative_ratings >= 0
          /\ df[i].total_ratings = df[i].positive_ratings + df[i].negative_ratings

InPercent(q) == q.den > 0 /\ 0 <= q.num /\ q.num <= 100 * q.den

\* C6: every loaded record's positive_ratio and negative_ratio lie in
\* [0, 100]; they sum to 100 when total_ratings > 0 and are both 0 when
\* total_ratings = 0.
C6_Ratios ==
    pc = "loaded" =>
       \A i \in 1..Len(df) :
          LET p == df[i].positive_ratio
              n == df[i].negative_ratio
          IN /\ InPercent(p)
             /\ InPercent(n)
             /\ df[i].total_ratings > 0 =>
                   p.num * n.den + n.num * p.den = 100 * p.den * n.den
             /\ df[i].total_ratings = 0 => p.num = 0 /\ n.num = 0

\* C7: the loaded table has one record for each primary-source row and no
\* other: neither join adds a second record for a row, also when the genre
\* or release-date source holds several rows of one appid.
C7_OneRecordPerRow ==
    pc = "loaded" =>
       \A a \in AppIds :
          Cardinality(RowsOf(a)) = Len(Lookup(harga.rows, a))

\* C8: once built, the base table is what load_data returned, whatever
\* pages were viewed, also after the price page set price_category on its
\* subset.
C8_BaseUnchanged ==
    pc = "loaded" => df = load_data(harga, genre_csv, steam_csv).table

C8_Witness ==
    /\ pc = "loaded"
    /\ page = "Harga vs Popularitas"
    /\ fdf # <<>>
    /\ \A i \in 1..Len(fdf) : fdf[i].price_category = price_category(fdf[i].price)
    /\ Len(fdf) < Len(df)

\* C9: apply_filters(apply_filters(table, C), C) has exactly the rows of
\* apply_filters(table, C).
C9_Idempotent == (pc = "twice" /\ critB = critA) => fdf2 = fdf

C9_Witness ==
    /\ pc = "twice"
    /\ critB = critA
    /\ min_active(critA.min_ratings)
    /\ genres_active(critA.genres)
    /\ fdf2 # <<>>
    /\ Len(fdf2) < Len(df)

\* Every argument absent or at its sentinel.
AllSentinel(c) ==
    /\ ~c.year_range.given
    /\ GenresUnconstrained(c.genres)
    /\ TypeUnconstrained(c.game_type)
    /\ ~c.min_ratings.given \/ c.min_ratings.v = 0
    /\ ~c.price_range.given

\* C10: apply_filters with every criterion absent or at its sentinel
\* returns all rows of the table, with the same content and row count.
C10_AllSentinel == (Applied /\ AllSentinel(critA)) => fdf = df

C10_Witness ==
    /\ pc = "once"
    /\ critA = Criteria(NoRange, Genres({"All", "Action"}), Type("All"), Min(0), NoRange)
    /\ Len(fdf) >= 2
    /\ \E i \in 1..Len(df) : df[i].primary_genre # "Action"

\* What a numeric cell is to become: its number, 0 when it denotes none.
Coerced(cell) == IF to_numeric(cell).nan THEN 0 ELSE to_numeric(cell).v

Unparsable(row) ==
    \/ to_numeric(row.price).nan
    \/ to_numeric(row.positive_ratings).nan
    \/ to_numeric(row.negative_ratings).nan

NumericFields(S) ==
    { <<x.appid, x.price, x.positive_ratings, x.negative_ratings>> : x \in S }

\* C11: with its sources read, load_data does not raise whatever the
\* primary rows' price, positive_ratings and negative_ratings cells hold,
\* and the records carry exactly the rows' cells coerced: 0 for a cell that
\* is missing or does not parse, the parsed number otherwise.
C11_Coerced ==
    (pc # "start" /\ harga.ok /\ genre_csv.ok) =>
       /\ pc = "loaded"
       /\ NumericFields({ df[i] : i \in 1..Len(df) })
            = NumericFields({ [appid |-> harga.rows[k].appid,
                               price |-> Coerced(harga.rows[k].price),
                               positive_ratings |-> Coerced(harga.rows[k].positive_ratings),
                               negative_ratings |-> Coerced(harga.rows[k].negative_ratings)]
                              : k \in 1..Len(harga.rows) })

C11_Witness ==
    /\ pc = "loaded"
    /\ \E k \in 1..Len(harga.rows) :
          /\ Unparsable(harga.rows[k])
          /\ harga.rows[k].positive_ratings = ""
    /\ \E k \in 1..Len(harga.rows) : ~Unparsable(harga.rows[k])
    /\ \E i \in 1..Len(df) : df[i].price = 0 /\ df[i].total_ratings = 0
    /\ \E i \in 1..Len(df) : df[i].price = 30

OnlyFree == Criteria(NoRange, NoGenres, Type("Free"), NoMin, NoRange)

\* C12: every loaded record's game_type is "Free" if its coerced price is 0
\* and "Paid" otherwise, and apply_filters with game_type="Free" alone
\* returns exactly the records whose price is 0.
C12_FreeIffZero ==
    /\ pc \in {"loaded", "once", "twice"} =>
          \A i \in 1..Len(df) :
             df[i].game_type = (IF df[i].price = 0 THEN "Free" ELSE "Paid")
    /\ (Applied /\ critA = OnlyFree) => fdf = SelectSeq(df, LAMBDA x : x.price = 0)

C12_Witness ==
    /\ pc = "once"
    /\ critA = OnlyFree
    /\ fdf # <<>>
    /\ Len(fdf) < Len(df)
    /\ \E k \in 1..Len(harga.rows) : harga.rows[k].price = "abc"

====
